---- MODULE Spec2Model ----
(***************************************************************************)
(* The wanted-episodes page of the frontend                                *)
(* (frontend/src/pages/Wanted/Series/index.tsx) and the table style        *)
(* presets (useTableStyles), as a state machine.                           *)
(*                                                                         *)
(* The state is what the component reads from its hooks (the page of       *)
(* wanted episodes, the download mutation's loading flag, the theme), the  *)
(* element tree of the last render with the closures it attached, the      *)
(* useMemo cell of the column schema, and the calls the view has made to   *)
(* task.create and to the series-action mutation.                          *)
(***************************************************************************)
EXTENDS Integers, Sequences, FiniteSets, TLC

VARIABLES
    theme,        \* the theme createStyles hands to the style function
    version,      \* which snapshot of the wanted list the query last fetched
    page,         \* the page the pagination query is on
    data,         \* the rows of the current page (Wanted.Episode records)
    isLoading,    \* download.isLoading of useEpisodeSubtitleModification
    memo,         \* the useMemo cell holding the column schema
    styles,       \* the rule sets useTableStyles produced in the last render
    view,         \* the rows rendered last: one sequence of cells per row
    tasks,        \* the calls made to task.create, each with its status
    actionCalls,  \* the arguments passed to useSeriesAction().mutateAsync
    nClicks,      \* how many badge clicks have been handled
    lastEvent     \* the event handled by the last step

vars == <<theme, version, page, data, isLoading, memo, styles, view,
          tasks, actionCalls, nClicks, lastEvent>>

-----------------------------------------------------------------------------
(* Bounds *)

\* The view makes at most this many calls (task.create plus series action).
MaxCalls == 2

\* Rows per page of the pagination query.
PageSize == 2

-----------------------------------------------------------------------------
(* Values *)

\* JavaScript's undefined (an absent prop or field).
undefined == "undefined"

TaskGroup_SearchSubtitle == "SearchSubtitle"

download_mutateAsync == "download.mutateAsync"

\* Language entries of a missing_subtitles list (Language.Info).
LangEn       == [code2 |-> "en", name |-> "English", hi |-> FALSE, forced |-> FALSE]
LangEnHi     == [code2 |-> "en", name |-> "English", hi |-> TRUE,  forced |-> FALSE]
LangFrForced == [code2 |-> "fr", name |-> "French",  hi |-> FALSE, forced |-> TRUE]

Episode(sid, eid, title, num, etitle, p, scene, missing) ==
    [sonarrSeriesId |-> sid, sonarrEpisodeId |-> eid, seriesTitle |-> title,
     episode_number |-> num, episodeTitle |-> etitle, path |-> p,
     sceneName |-> scene, missing_subtitles |-> missing]

\* The wanted list as the server holds it. In snapshot 2 the plain English
\* subtitle of the first episode has been found.
WantedList(v) ==
    IF v = 1
    THEN << Episode(1, 42, "Alpha", "1x01", "Pilot", "/tv/alpha/s01e01.mkv",
                    "Alpha.S01E01.WEB", <<LangEn, LangEnHi>>),
            Episode(1, 43, "Alpha", "1x02", "Second", "/tv/alpha/s01e02.mkv",
                    undefined, << >>),
            Episode(7, 1, "Beta", "2x05", "Fifth", "/tv/beta/s02e05.mkv",
                    "Beta.S02E05.HDTV", <<LangFrForced, LangFrForced>>) >>
    ELSE << Episode(1, 42, "Alpha", "1x01", "Pilot", "/tv/alpha/s01e01.mkv",
                    "Alpha.S01E01.WEB", <<LangEnHi>>),
            Episode(1, 43, "Alpha", "1x02", "Second", "/tv/alpha/s01e02.mkv",
                    undefined, << >>),
            Episode(7, 1, "Beta", "2x05", "Fifth", "/tv/beta/s02e05.mkv",
                    "Beta.S02E05.HDTV", <<LangFrForced, LangFrForced>>) >>

Versions == {1, 2}

Min(a, b) == IF a < b THEN a ELSE b

NumPages(v) == (Len(WantedList(v)) + PageSize - 1) \div PageSize

\* useEpisodeWantedPagination: the rows of page p of snapshot v.
useEpisodeWantedPagination(v, p) ==
    SubSeq(WantedList(v), (p - 1) * PageSize + 1,
           Min(p * PageSize, Len(WantedList(v))))

\* The themes the host may supply: theme.fn.smallerThan maps a breakpoint name
\* to the media query that selects narrower viewports.
Themes ==
    { [fn |-> [smallerThan |-> [bp \in {"sm"} |-> "@media (max-width: 767px)"]]],
      [fn |-> [smallerThan |-> [bp \in {"sm"} |-> "@media (max-width: 47.9375em)"]]] }

-----------------------------------------------------------------------------
(* Style presets: useTableStyles *)

\* A variant with the widths of two presets exchanged.
WidthPresetsSwapped ==
    [width10em |-> [width |-> "10em"], width9em |-> [width |-> "9em"],
     width8em  |-> [width |-> "8em"],  width7em |-> [width |-> "6em"],
     width6em  |-> [width |-> "7em"],  width5em |-> [width |-> "5em"],
     width4em  |-> [width |-> "4em"],  width3em |-> [width |-> "3em"],
     width2em  |-> [width |-> "2em"],  width1em |-> [width |-> "1em"]]

\* The fixed-width presets width10em .. width1em.
WidthPresets ==
    [width10em |-> [width |-> "10em"], width9em |-> [width |-> "9em"],
     width8em  |-> [width |-> "8em"],  width7em |-> [width |-> "7em"],
     width6em  |-> [width |-> "6em"],  width5em |-> [width |-> "5em"],
     width4em  |-> [width |-> "4em"],  width3em |-> [width |-> "3em"],
     width2em  |-> [width |-> "2em"],  width1em |-> [width |-> "1em"]]

\* The presets whose rules depend on the theme's breakpoint function.
LayoutPresets(th) ==
    [primary |-> ("display" :> "inline-block")
                 @@ (th.fn.smallerThan["sm"] :> [minWidth |-> "12rem"]),
     noWrap  |-> [whiteSpace |-> "nowrap"],
     select  |-> ("display" :> "inline-block")
                 @@ (th.fn.smallerThan["sm"] :> [minWidth |-> "10rem"])]

\* createStyles((theme) => ({...})): style name -> rule set.
useTableStyles(th) == LayoutPresets(th) @@ WidthPresets

StyleNames ==
    {"primary", "noWrap", "select", "width10em", "width9em", "width8em",
     "width7em", "width6em", "width5em", "width4em", "width3em", "width2em",
     "width1em"}

-----------------------------------------------------------------------------
(* Column schema *)

Column(header, acc, cls, cell) ==
    [Header |-> header, accessor |-> acc, className |-> cls, Cell |-> cell]

\* The array built by the useMemo factory.
ColumnsFactory ==
    << Column("Name", "seriesTitle", undefined, "Name"),
       Column("Episode", "episode_number", undefined, undefined),
       Column(undefined, "episodeTitle", undefined, "EpisodeTitle"),
       Column("Path", "path", undefined, "Path"),
       Column("Release", "sceneName", "width6em text-center", "Release"),
       Column("Missing", "missing_subtitles", undefined, "Missing") >>

\* A dependency list that names the loading flag.
ColumnsDepsOnLoading(loading) == <<loading>>

\* The dependency list given to useMemo (loading: the flag at render time).
ColumnsDeps(loading) == << >>

\* React's useMemo: the cached value is kept while the dependencies compare
\* equal to those of the previous render; computed counts the factory calls.
useMemo(cell, value, deps) ==
    IF cell.deps = deps
    THEN cell
    ELSE [deps |-> deps, value |-> value, computed |-> cell.computed + 1]

\* The memo cell after the first render.
MountMemo(loading) ==
    [deps |-> ColumnsDeps(loading), value |-> ColumnsFactory, computed |-> 1]

-----------------------------------------------------------------------------
(* Cell renderers *)

\* A link to the episode's own page.
NameCellEpisodeTarget(wanted, value) ==
    [component |-> "Anchor", className |-> "primary",
     to |-> "/series/" \o ToString(wanted.sonarrEpisodeId), children |-> value]

\* Name: a link to the series page.
NameCell(wanted, value) ==
    [component |-> "Anchor", className |-> "primary",
     to |-> "/series/" \o ToString(wanted.sonarrSeriesId), children |-> value]

EpisodeTitleCell(value) ==
    [component |-> "Text", className |-> "noWrap", children |-> value]

PathCell(value) ==
    [component |-> "Text", className |-> "width7em", children |-> value]

ReleaseCell(wanted) ==
    [component |-> "TextPopover", text |-> wanted.sceneName,
     children |-> [component |-> "FontAwesomeIcon", icon |-> "faFileLines"]]

\* A colour that ignores the mutation's state.
BadgeColorAlwaysDefault(download) == undefined

\* color={download.isLoading ? "gray" : undefined}
BadgeColor(download) == IF download.isLoading THEN "gray" ELSE undefined

\* A call whose form carries the flags in exchanged positions.
TaskCallFlagsSwapped(item, seriesId, episodeId) ==
    [name |-> item.name, group |-> TaskGroup_SearchSubtitle,
     fn |-> download_mutateAsync,
     arg |-> [seriesId |-> seriesId, episodeId |-> episodeId,
              form |-> [language |-> item.code2, hi |-> item.forced,
                        forced |-> item.hi]]]

\* The arguments the badge's onClick closure passes to task.create.
TaskCall(item, seriesId, episodeId) ==
    [name |-> item.name, group |-> TaskGroup_SearchSubtitle,
     fn |-> download_mutateAsync,
     arg |-> [seriesId |-> seriesId, episodeId |-> episodeId,
              form |-> [language |-> item.code2, hi |-> item.hi,
                        forced |-> item.forced]]]

\* One badge of the Missing cell; idx is the zero-based index of the map.
Badge(item, idx, seriesId, episodeId, download) ==
    [component |-> "Badge",
     color |-> BadgeColor(download),
     key |-> <<idx, item.code2>>,
     onClick |-> TaskCall(item, seriesId, episodeId),
     children |-> [component |-> "Language.Text", value |-> item]]

\* The first position at which a language code occurs in a list.
FirstOf(value, code) ==
    CHOOSE i \in 1..Len(value) :
        /\ value[i].code2 = code
        /\ \A j \in 1..(i - 1) : value[j].code2 # code

\* A cell that renders one badge per distinct language code.
MissingCellDistinct(wanted, value, download) ==
    LET keep == SelectSeq([i \in 1..Len(value) |-> i],
                          LAMBDA i : FirstOf(value, value[i].code2) = i)
    IN [component |-> "Group",
        children |-> [k \in 1..Len(keep) |->
            Badge(value[keep[k]], k - 1, wanted.sonarrSeriesId,
                  wanted.sonarrEpisodeId, download)]]

\* Missing: value.map((item, idx) => <Badge .../>) inside a Group.
MissingCell(wanted, value, download) ==
    LET seriesId  == wanted.sonarrSeriesId
        episodeId == wanted.sonarrEpisodeId
    IN [component |-> "Group",
        children |-> [i \in 1..Len(value) |->
            Badge(value[i], i - 1, seriesId, episodeId, download)]]

\* The table applies a column to a row: the column's Cell gets the row's
\* record (row.original) and the accessed field (value); a column without a
\* Cell shows the value itself.
RenderCell(col, wanted, download) ==
    LET value == wanted[col.accessor]
    IN CASE col.Cell = "Name"         -> NameCell(wanted, value)
         [] col.Cell = "EpisodeTitle" -> EpisodeTitleCell(value)
         [] col.Cell = "Path"         -> PathCell(value)
         [] col.Cell = "Release"      -> ReleaseCell(wanted)
         [] col.Cell = "Missing"      -> MissingCell(wanted, value, download)
         [] OTHER                     -> [component |-> "Value", children |-> value]

\* WantedView: every column over every row of the query's page.
WantedView(columns, rows, download) ==
    [r \in 1..Len(rows) |->
        [c \in 1..Len(columns) |-> RenderCell(columns[c], rows[r], download)]]

-----------------------------------------------------------------------------
(* The page component *)

\* The argument of the searchAll closure.
SearchAllArgSync == [action |-> "sync"]

SearchAllArg == [action |-> "search-wanted"]

\* useEpisodeSubtitleModification(): the download mutation as a cell sees it.
useEpisodeSubtitleModification(loading) ==
    [download |-> [isLoading |-> loading, mutateAsync |-> download_mutateAsync]]

\* One run of the component function: the memo cell, the style rules, the
\* props handed to WantedView with the rendered rows, and the series-action
\* calls made so far (ac), to which a render adds nothing.
WantedSeriesViewPlain(m, rows, loading, th, ac) ==
    LET cell     == useMemo(m, ColumnsFactory, ColumnsDeps(loading))
        download == useEpisodeSubtitleModification(loading).download
    IN [memo        |-> cell,
        styles      |-> useTableStyles(th),
        view        |-> [name      |-> "Series",
                         columns   |-> cell.value,
                         rows      |-> WantedView(cell.value, rows, download),
                         searchAll |-> SearchAllArg],
        actionCalls |-> ac]

\* A component that invokes the mutation while rendering, as
\* searchAll={mutateAsync({...})} would.
WantedSeriesViewCallsOnRender(m, rows, loading, th, ac) ==
    [WantedSeriesViewPlain(m, rows, loading, th, ac)
        EXCEPT !.actionCalls = Append(ac, SearchAllArg)]

WantedSeriesView(m, rows, loading, th, ac) ==
    WantedSeriesViewPlain(m, rows, loading, th, ac)

\* task.create(name, group, fn, arg): the task is registered as pending.
TaskCreate(ts, call) ==
    Append(ts, [name |-> call.name, group |-> call.group, fn |-> call.fn,
                arg |-> call.arg, status |-> "pending"])

\* A handler that skips the call while an equal task is pending or running.
onClickDeduplicating(badge, ts) ==
    IF \E j \in 1..Len(ts) :
           /\ ts[j].arg = badge.onClick.arg
           /\ ts[j].status \in {"pending", "running"}
    THEN ts
    ELSE TaskCreate(ts, badge.onClick)

\* A handler that returns only once the task it created has finished.
onClickAwaitsTask(badge, ts) ==
    LET created == TaskCreate(ts, badge.onClick)
    IN [created EXCEPT ![Len(created)].status = "success"]

\* The badge's onClick: one call of task.create with the captured values.
onClick(badge, ts) == TaskCreate(ts, badge.onClick)

\* The searchAll prop: () => mutateAsync({ action: "search-wanted" }).
searchAll(arg, ac) == Append(ac, arg)

-----------------------------------------------------------------------------
(* State machine *)

\* The position of the column with the given accessor in the rendered schema.
ColumnIndex(acc) ==
    CHOOSE c \in 1..Len(view.columns) : view.columns[c].accessor = acc

\* The cell rendered for row r in the column with the given accessor.
CellAt(r, acc) == view.rows[r][ColumnIndex(acc)]

Event(kind, r, i) == [kind |-> kind, row |-> r, idx |-> i]

\* The badges rendered for row r.
Badges(r) == CellAt(r, "missing_subtitles").children

\* Re-render with the given hook values, after the series-action calls ac.
Rerender(rows, loading, th, ac) ==
    LET out == WantedSeriesView(memo, rows, loading, th, ac)
    IN /\ memo' = out.memo
       /\ styles' = out.styles
       /\ view' = out.view
       /\ actionCalls' = out.actionCalls

Init ==
    /\ theme \in Themes
    /\ version = 1
    /\ page = 1
    /\ data = useEpisodeWantedPagination(1, 1)
    /\ isLoading = FALSE
    /\ tasks = << >>
    /\ nClicks = 0
    /\ lastEvent = Event("render", 0, 0)
    /\ LET out == WantedSeriesView(MountMemo(FALSE), data, FALSE, theme, << >>)
       IN /\ memo = out.memo
          /\ styles = out.styles
          /\ view = out.view
          /\ actionCalls = out.actionCalls

\* The component renders again although nothing it reads has changed.
Render ==
    /\ Rerender(data, isLoading, theme, actionCalls)
    /\ lastEvent' = Event("render", 0, 0)
    /\ UNCHANGED <<theme, version, page, data, isLoading, tasks, nClicks>>

\* The user clicks badge i of row r.
ClickBadge(r, i) ==
    /\ r \in 1..Len(view.rows)
    /\ i \in 1..Len(Badges(r))
    /\ Len(tasks) + Len(actionCalls) < MaxCalls
    /\ tasks' = onClick(Badges(r)[i], tasks)
    /\ nClicks' = nClicks + 1
    /\ lastEvent' = Event("click", r, i)
    /\ UNCHANGED <<theme, version, page, data, isLoading, memo, styles, view,
                   actionCalls>>

\* The user invokes "search all"; the mutation's observer renders the view.
SearchAll ==
    /\ Len(tasks) + Len(actionCalls) < MaxCalls
    /\ Rerender(data, isLoading, theme, searchAll(view.searchAll, actionCalls))
    /\ lastEvent' = Event("searchAll", 0, 0)
    /\ UNCHANGED <<theme, version, page, data, isLoading, tasks, nClicks>>

\* The task subsystem starts pending task j: it invokes the task's function,
\* the download mutation, which then reports loading.
TaskStart(j) ==
    /\ j \in 1..Len(tasks)
    /\ tasks[j].status = "pending"
    /\ tasks' = [tasks EXCEPT ![j].status = "running"]
    /\ isLoading' = TRUE
    /\ Rerender(data, TRUE, theme, actionCalls)
    /\ lastEvent' = Event("start", 0, 0)
    /\ UNCHANGED <<theme, version, page, data, nClicks>>

\* Running task j settles with the given outcome.
TaskSettle(j, outcome) ==
    /\ j \in 1..Len(tasks)
    /\ tasks[j].status = "running"
    /\ tasks' = [tasks EXCEPT ![j].status = outcome]
    /\ LET loading == \E k \in 1..Len(tasks) :
                          k # j /\ tasks[k].status = "running"
       IN /\ isLoading' = loading
          /\ Rerender(data, loading, theme, actionCalls)
    /\ lastEvent' = Event(outcome, 0, 0)
    /\ UNCHANGED <<theme, version, page, data, nClicks>>

\* The user moves to another page of the wanted list.
PageChange(p) ==
    /\ p \in 1..NumPages(version)
    /\ p # page
    /\ page' = p
    /\ data' = useEpisodeWantedPagination(version, p)
    /\ Rerender(data', isLoading, theme, actionCalls)
    /\ lastEvent' = Event("render", 0, 0)
    /\ UNCHANGED <<theme, version, isLoading, tasks, nClicks>>

\* The query is invalidated and fetches snapshot v of the wanted list.
Refetch(v) ==
    /\ v \in Versions
    /\ version' = v
    /\ page' = Min(page, NumPages(v))
    /\ data' = useEpisodeWantedPagination(v, page')
    /\ Rerender(data', isLoading, theme, actionCalls)
    /\ lastEvent' = Event("render", 0, 0)
    /\ UNCHANGED <<theme, isLoading, tasks, nClicks>>

\* The host switches to another theme.
ThemeChange(th) ==
    /\ th \in Themes
    /\ th # theme
    /\ theme' = th
    /\ Rerender(data, isLoading, th, actionCalls)
    /\ lastEvent' = Event("render", 0, 0)
    /\ UNCHANGED <<version, page, data, isLoading, tasks, nClicks>>

Next ==
    \/ Render
    \/ \E r \in 1..Len(view.rows) : \E i \in 1..Len(Badges(r)) : ClickBadge(r, i)
    \/ SearchAll
    \/ \E j \in 1..Len(tasks) : TaskStart(j)
    \/ \E j \in 1..Len(tasks), o \in {"success", "failure"} : TaskSettle(j, o)
    \/ \E p \in 1..NumPages(version) : PageChange(p)
    \/ \E v \in Versions : Refetch(v)
    \/ \E th \in Themes : ThemeChange(th)

Spec == Init /\ [][Next]_vars

-----------------------------------------------------------------------------
(* Properties *)

\* The arguments of a task.create call, without the task's status.
CallOf(t) == [name |-> t.name, group |-> t.group, fn |-> t.fn, arg |-> t.arg]

Calls(ts) == [j \in 1..Len(ts) |-> CallOf(ts[j])]

\* How many of the tasks were created with the given arguments.
CountCalls(ts, call) == Cardinality({j \in 1..Len(ts) : CallOf(ts[j]) = call})

\* The view may still make a call within the bound of the model.
Room == Len(tasks) + Len(actionCalls) < MaxCalls

\* The positions <<row, index>> of the badges on screen.
BadgePositions ==
    UNION {{<<r, i>> : i \in 1..Len(Badges(r))} : r \in 1..Len(view.rows)}

\* C1: a click on the badge of entry L of a row makes exactly one call of
\* task.create, in group SearchSubtitle, named L.name, with the download
\* mutation and {seriesId, episodeId, form: {language, hi, forced}} taken from
\* that row and that entry; the tasks created before are left as they were.
C1_ClickCreatesOneSearchTask ==
    [][lastEvent'.kind = "click" =>
        LET wanted == data[lastEvent'.row]
            L      == wanted.missing_subtitles[lastEvent'.idx]
        IN /\ Len(tasks') = Len(tasks) + 1
           /\ SubSeq(tasks', 1, Len(tasks)) = tasks
           /\ CallOf(tasks'[Len(tasks')]) =
                [name  |-> L.name,
                 group |-> "SearchSubtitle",
                 fn    |-> "download.mutateAsync",
                 arg   |-> [seriesId  |-> wanted.sonarrSeriesId,
                            episodeId |-> wanted.sonarrEpisodeId,
                            form      |-> [language |-> L.code2,
                                           hi       |-> L.hi,
                                           forced   |-> L.forced]]]
    ]_vars

\* The hearing-impaired English badge (second entry of its row) was clicked.
C1_Witness ==
    /\ lastEvent.kind = "click"
    /\ lastEvent.idx = 2
    /\ Len(tasks) >= 1
    /\ tasks[Len(tasks)].arg.form = [language |-> "en", hi |-> TRUE, forced |-> FALSE]
    /\ tasks[Len(tasks)].arg.episodeId = 42

\* C2: the Missing cell of a row shows exactly one badge per entry of the
\* row's missing_subtitles list, the i-th badge for the i-th entry and
\* labelled with it, also for an empty list and for repeated languages.
C2_OneBadgePerEntry ==
    /\ Len(view.rows) = Len(data)
    /\ \A r \in 1..Len(data) :
        LET list   == data[r].missing_subtitles
            badges == Badges(r)
        IN /\ DOMAIN badges = 1..Len(list)
           /\ \A i \in 1..Len(list) :
                /\ badges[i].component = "Badge"
                /\ badges[i].children = [component |-> "Language.Text",
                                         value |-> list[i]]

\* A row whose list names the same language twice is shown.
C2_Witness ==
    \E r \in 1..Len(data) :
        /\ Len(data[r].missing_subtitles) = 2
        /\ data[r].missing_subtitles[1] = data[r].missing_subtitles[2]
        /\ Len(Badges(r)) = 2

\* C3: every badge is gray exactly when the download mutation reports
\* loading and has no colour otherwise; while it reports loading a click on
\* any badge is still possible and still creates a task.
C3_LoadingOnlyColours ==
    /\ [](\A b \in BadgePositions :
            Badges(b[1])[b[2]].color = IF isLoading THEN "gray" ELSE "undefined")
    /\ []((isLoading /\ Room) =>
            \A b \in BadgePositions : ENABLED ClickBadge(b[1], b[2]))
    /\ [][(isLoading /\ lastEvent'.kind = "click") =>
            Len(tasks') = Len(tasks) + 1]_vars

\* A gray badge was clicked while a download was running.
C3_Witness ==
    /\ isLoading
    /\ lastEvent.kind = "click"
    /\ Badges(lastEvent.row)[lastEvent.idx].color = "gray"
    /\ \E j \in 1..Len(tasks) : tasks[j].status = "running"
    /\ tasks[Len(tasks)].status = "pending"

\* C4: every searchAll calls the series-action mutation exactly once, with
\* {action: "search-wanted"}, and creates no task.
C4_SearchAllCallsSeriesAction ==
    [][lastEvent'.kind = "searchAll" =>
        /\ actionCalls' = Append(actionCalls, [action |-> "search-wanted"])
        /\ tasks' = tasks
    ]_vars

\* searchAll was invoked after a badge had been clicked.
C4_Witness ==
    /\ lastEvent.kind = "searchAll"
    /\ Len(actionCalls) = 1
    /\ Len(tasks) = 1

\* C5: no deduplication: as many tasks have been created as badges were
\* clicked; each click adds one task with the badge's payload, whatever
\* tasks exist; and a pending or running task with the same payload does not
\* disable the badge.
C5_NoDeduplication ==
    /\ [](nClicks = Len(tasks))
    /\ [][lastEvent'.kind = "click" =>
            LET call == Badges(lastEvent'.row)[lastEvent'.idx].onClick
            IN /\ CountCalls(tasks', call) = CountCalls(tasks, call) + 1
               /\ SubSeq(tasks', 1, Len(tasks)) = tasks]_vars
    /\ [](\A b \in BadgePositions :
            (Room /\ \E j \in 1..Len(tasks) :
                        /\ CallOf(tasks[j]) = Badges(b[1])[b[2]].onClick
                        /\ tasks[j].status \in {"pending", "running"})
            => ENABLED ClickBadge(b[1], b[2]))

\* The same payload was submitted twice, the second time while the first
\* task had not finished.
C5_Witness ==
    /\ lastEvent.kind = "click"
    /\ nClicks = 2
    /\ Len(tasks) = 2
    /\ CallOf(tasks[1]) = CallOf(tasks[2])
    /\ tasks[1].status \in {"pending", "running"}

\* C6: the click handler returns with the task it created not yet settled;
\* when a task succeeds or fails the view makes no call of its own; and
\* after a settled task clicks and searchAll remain possible.
C6_FireAndForget ==
    /\ [][lastEvent'.kind = "click" =>
            /\ Len(tasks') = Len(tasks) + 1
            /\ tasks'[Len(tasks')].status \notin {"success", "failure"}]_vars
    /\ [][lastEvent'.kind \in {"success", "failure"} =>
            /\ Calls(tasks') = Calls(tasks)
            /\ actionCalls' = actionCalls
            /\ nClicks' = nClicks]_vars
    /\ []((Room /\ \E j \in 1..Len(tasks) :
                      tasks[j].status \in {"success", "failure"})
          => /\ ENABLED SearchAll
             /\ \A b \in BadgePositions : ENABLED ClickBadge(b[1], b[2]))

\* A badge was clicked after an earlier task had failed.
C6_Witness ==
    /\ lastEvent.kind = "click"
    /\ Len(tasks) = 2
    /\ tasks[1].status = "failure"
    /\ tasks[2].status = "pending"

\* C7: the Name cell of a row is a link to "/series/" followed by the row's
\* own sonarrSeriesId, with the row's seriesTitle as its text.
C7_NameLinksToSeries ==
    \A r \in 1..Len(data) :
        LET cell == CellAt(r, "seriesTitle")
        IN /\ cell.component = "Anchor"
           /\ cell.to = "/series/" \o ToString(data[r].sonarrSeriesId)
           /\ cell.children = data[r].seriesTitle

\* The row of series 7, whose episode identifier is another row's series
\* identifier, is shown.
C7_Witness ==
    \E r \in 1..Len(data) :
        /\ data[r].sonarrSeriesId = 7
        /\ data[r].sonarrEpisodeId = 1
        /\ CellAt(r, "seriesTitle").to = "/series/7"

C9_ColumnsComputedOnce ==
    /\ [j \in 1..Len(view.columns) |-> view.columns[j].accessor] =
         <<"seriesTitle", "episode_number", "episodeTitle", "path",
           "sceneName", "missing_subtitles">>
    /\ memo.computed = 1
    /\ view.columns = memo.value

\* The view has been rendered again after a page change, a refetch and a
\* change of the loading flag.
C9_Witness ==
    /\ page = 2
    /\ version = 2
    /\ isLoading
    /\ lastEvent.kind = "start"
    /\ memo.computed = 1

\* C10: the rows are always those the query supplied; a click or searchAll
\* leaves the rows and the loading flag alone; the loading flag changes only
\* when the task subsystem starts or settles a task; and a step that is
\* neither a click nor searchAll makes no call.
C10_ViewOnlyReads ==
    /\ [](data = useEpisodeWantedPagination(version, page))
    /\ [][lastEvent'.kind \in {"click", "searchAll"} =>
            /\ data' = data
            /\ isLoading' = isLoading]_vars
    /\ [][isLoading' # isLoading =>
            lastEvent'.kind \in {"start", "success", "failure"}]_vars
    /\ [][lastEvent'.kind \notin {"click", "searchAll"} =>
            /\ Calls(tasks') = Calls(tasks)
            /\ actionCalls' = actionCalls]_vars

\* The view was rendered again after a click and a searchAll, while loading.
C10_Witness ==
    /\ lastEvent.kind = "render"
    /\ isLoading
    /\ Len(tasks) = 1
    /\ Len(actionCalls) = 1

====
